---- MODULE Spec2Model ----
(***************************************************************************)
(* Document synchronization layer of course-schedule-visualizer.           *)
(*                                                                         *)
(* Several application processes (one per user) share one storage folder.  *)
(* Each process has a store side (src/main/index.ts: the storage:read,     *)
(* storage:write and storage:batchWrite handlers) and a client side        *)
(* (src/utils/storage.ts: readFile, writeFile, forceWriteFile,             *)
(* batchSaveSectionsAndHistory and the lastKnownTimestamps map).           *)
(*                                                                         *)
(* A handler runs synchronously inside its own process, but the processes  *)
(* of different users interleave at the granularity of file-system calls,  *)
(* so every handler is modelled as the sequence of its file-system calls.  *)
(* The client wrapper's continuation (cache update, throw) is folded into  *)
(* the handler's last step.                                                *)
(***************************************************************************)
EXTENDS Integers, Sequences, FiniteSets, TLC

VARIABLES
    clock,                 \* store clock in ms (source of mtimeMs)
    fs,                    \* the shared folder: path -> file (content, mtime)
    configured,            \* per process: readConfig() is not null
    lastKnownTimestamps,   \* per process: the Version Cache (storage.ts:8)
    pc,                    \* per process: position inside the running handler
    op,                    \* per process: the request being served
    res,                   \* the result most recently delivered to a client
    nops,                  \* operations started so far
    unseen,                \* history, per process: documents another process has
                           \* changed since this process last observed their version
    carried,               \* history, per process: documents whose cache entry was
                           \* read in a previous folder and not yet in this one
    (* the renderer of one application process (src/App.tsx) *)
    sections,              \* React state: the sections shown (App.tsx:34)
    selectedTerm,          \* React state: selectedYear, selectedSemester (App.tsx:32-33)
    instructors,           \* React state: the instructor catalog (App.tsx:40)
    saveGeneration,        \* saveGeneration.current (App.tsx:57)
    saveQueue,             \* the promise chain saveQueue.current (App.tsx:56)
    ipc,                   \* requests sent to the main process, not yet answered
    saveError,             \* React state: an error is shown (App.tsx:50)
    showConflict,          \* React state: the conflict dialog is shown (App.tsx:48)
    lastEdit,              \* history, per term: the user's latest edit of that term
    failed,                \* history: some store operation of this process has failed
    burst                  \* history: enqueues and commits since the chain was last idle

storeVars == <<clock, fs, configured, lastKnownTimestamps, pc, op, res, nops, unseen, carried>>

appVars == <<sections, selectedTerm, instructors, saveGeneration, saveQueue, ipc,
             saveError, showConflict, lastEdit, failed, burst>>

vars == <<storeVars, appVars>>

----------------------------------------------------------------------------
(* Bounds *)

MaxTime == 60
MaxOps == 2

TickSteps == {50, 51}
InitTime == 1

Procs == {"p1", "p2"}
(* courses.json is handled exactly like instructors.json and is left out *)
Docs == {"sections", "instructors"}

(* Values the client hands to the store.  "X1u" is X1 carrying a property   *)
(* whose value is undefined (SectionForm.tsx:104 builds tagIds: undefined). *)
Data == {"X1u", "X2"}

(* each user edits towards a content of their own *)
DataOf(p) == IF p = "p1" THEN "X1u" ELSE "X2"

(* forceWriteFile is only reached through forceSaveSections *)
ForceDocs == {"sections"}
NoData == "null"
ParseError == "SyntaxError"

----------------------------------------------------------------------------
(* Program constants and pure helpers *)

Tolerance == 50

NoEntry == -1

Abs(x) == IF x < 0 THEN 0 - x ELSE x

(* JSON.stringify drops properties whose value is undefined *)
JsonNormal(x) == IF x = "X1u" THEN "X1" ELSE x

Stringify(x) == [kind |-> "json", val |-> JsonNormal(x)]

(* what a writeFileSync that fails after opening the file leaves behind *)
PartialText == [kind |-> "partial", val |-> NoData]

Parse(t) == IF t.kind = "json" THEN t.val ELSE ParseError

Absent == [present |-> FALSE, text |-> PartialText, mtime |-> 0]

FileOf(t, m) == [present |-> TRUE, text |-> t, mtime |-> m]

(* lastKnownTimestamps.get(filename) ?? 0 *)
CacheGet(p, d) ==
    IF lastKnownTimestamps[p][d] = NoEntry THEN 0 ELSE lastKnownTimestamps[p][d]

(* a tolerance check that already fires at exactly 50 ms *)
IsConflictInclusive(exists, stored, expected) ==
    exists /\ expected > 0 /\ Abs(stored - expected) >= Tolerance

(* a conflict check that forgets the "no known baseline" case *)
IsConflictNoBaseline(exists, stored, expected) ==
    exists /\ Abs(stored - expected) > Tolerance

(* existsSync(filePath) && expected > 0 && Math.abs(mtimeMs - expected) > 50 *)
IsConflict(exists, stored, expected) ==
    exists /\ expected > 0 /\ Abs(stored - expected) > Tolerance

(* entries built by batchSaveSectionsAndHistory: primary first *)
BatchEntries(withInstr) ==
    <<"sections">> \o (IF withInstr THEN <<"instructors">> ELSE <<>>)

SeqRange(s) == {s[k] : k \in 1..Len(s)}

(* join(config.storagePath, filename) and finalPath + '.tmp' *)
FinalPath(d) == <<d, "">>

(* staging that writes straight onto the final path *)
TmpPathInPlace(d) == FinalPath(d)

TmpPath(d) == <<d, ".tmp">>

Paths == {FinalPath(d) : d \in Docs} \cup {TmpPath(d) : d \in Docs}

(* statSync(filePath).mtimeMs of a document *)
Mtime(d) == fs[FinalPath(d)].mtime

Exists(d) == fs[FinalPath(d)].present

----------------------------------------------------------------------------
(* Request and result records *)

NoOp ==
    [kind |-> "none", doc |-> "sections", data |-> NoData, expected |-> 0,
     entries |-> <<>>, i |-> 0, staged |-> <<>>, existed |-> FALSE, stored |-> 0]

NoTimestamps == [d \in Docs |-> NoEntry]

NoRes ==
    [proc |-> "none", kind |-> "none", doc |-> "sections", data |-> NoData,
     expected |-> 0, status |-> "none", lastModified |-> 0,
     hasCurrent |-> FALSE, currentData |-> NoData,
     entries |-> <<>>, timestamps |-> NoTimestamps, phase |-> "none", failedAt |-> 0,
     existed |-> FALSE, stored |-> 0]

(* result record of the request o, with the given outcome *)
ResOf(o, status, lm) ==
    [NoRes EXCEPT !.kind = o.kind, !.doc = o.doc, !.data = o.data,
                  !.expected = o.expected, !.status = status, !.lastModified = lm,
                  !.entries = o.entries, !.existed = o.existed, !.stored = o.stored]

Finish(p, r) ==
    /\ pc' = [pc EXCEPT ![p] = "idle"]
    /\ op' = [op EXCEPT ![p] = NoOp]
    /\ res' = [r EXCEPT !.proc = p]

Start(p) ==
    /\ pc[p] = "idle"
    /\ nops < MaxOps
    /\ nops' = nops + 1

(* history: process p has just put new content into document d *)
Changed(p, d) ==
    /\ unseen' = [q \in Procs |-> IF q = p THEN unseen[q] ELSE unseen[q] \cup {d}]
    /\ carried' = carried

(* history: process p has just observed the version of the documents ds *)
Observed(p, ds) ==
    /\ unseen' = [unseen EXCEPT ![p] = @ \ ds]
    /\ carried' = [carried EXCEPT ![p] = @ \ ds]

(* the renderer is left out of the store specification *)
NoRenderer ==
    /\ sections = <<>> /\ selectedTerm = "none" /\ instructors = <<>>
    /\ saveGeneration = 0 /\ saveQueue = <<>> /\ ipc = <<>>
    /\ saveError = FALSE /\ showConflict = FALSE
    /\ lastEdit = <<>> /\ failed = FALSE /\ burst = <<>>

----------------------------------------------------------------------------
(* The state after construction: the folder is empty or holds the documents *)
(* of an earlier session, and a configured process has run its initial load *)
(* (App.tsx init), which caches the version of every document it found.     *)
(* After storage:changeFolder to an empty folder the cache, keyed by file    *)
(* name only, still holds the versions read from the previous folder.       *)
Init ==
    /\ clock = InitTime
    /\ \E present \in {{}, Docs} :
          fs = [q \in Paths |-> IF q \in {FinalPath(d) : d \in present}
                                THEN FileOf(Stringify("X2"), InitTime)
                                ELSE Absent]
    /\ configured \in [Procs -> BOOLEAN]
    /\ \E changedFolder \in BOOLEAN :
          /\ changedFolder => \A d \in Docs : ~Exists(d)
          /\ lastKnownTimestamps =
                [p \in Procs |-> [d \in Docs |->
                    IF configured[p] /\ (Exists(d) \/ changedFolder)
                    THEN InitTime ELSE NoEntry]]
          /\ carried = [p \in Procs |->
                          IF configured[p] /\ changedFolder THEN Docs ELSE {}]
    /\ pc = [p \in Procs |-> "idle"]
    /\ op = [p \in Procs |-> NoOp]
    /\ res = NoRes
    /\ nops = 0
    /\ unseen = [p \in Procs |-> {}]
    /\ NoRenderer

(* the store clock advances *)
Tick ==
    /\ \E s \in TickSteps : clock + s <= MaxTime /\ clock' = clock + s
    /\ UNCHANGED appVars
    /\ UNCHANGED <<fs, configured, lastKnownTimestamps, pc, op, res, nops, unseen, carried>>

(* storage:selectFolder, folder chosen: writeConfig *)
SelectFolder(p) ==
    /\ pc[p] = "idle"
    /\ ~configured[p]
    /\ configured' = [configured EXCEPT ![p] = TRUE]
    /\ UNCHANGED appVars
    /\ UNCHANGED <<clock, fs, lastKnownTimestamps, pc, op, res, nops, unseen, carried>>

----------------------------------------------------------------------------
(* readFile -> storage:read *)

(* config check, existsSync, readFileSync + JSON.parse *)
readFile(p, d) ==
    /\ Start(p)
    /\ LET o == [NoOp EXCEPT !.kind = "read", !.doc = d,
                             !.existed = Exists(d), !.stored = Mtime(d)]
           t == fs[FinalPath(d)].text
       IN IF ~configured[p] \/ ~Exists(d) \/ Parse(t) = ParseError
          THEN Finish(p, ResOf(o, "absent", 0))
          ELSE /\ pc' = [pc EXCEPT ![p] = "read_stat"]
               /\ op' = [op EXCEPT ![p] = [o EXCEPT !.data = Parse(t)]]
               /\ UNCHANGED res
    /\ UNCHANGED appVars
    /\ UNCHANGED <<clock, fs, configured, lastKnownTimestamps, unseen, carried>>

(* a read that reports the time of reading instead of the file's mtime *)
ReadVersionNow(p) == clock

(* const stats = statSync(filePath); lastModified: stats.mtimeMs *)
ReadVersion(p) == Mtime(op[p].doc)

(* statSync, return { data, lastModified }; client: lastKnownTimestamps.set *)
readStat(p) ==
    /\ pc[p] = "read_stat"
    /\ LET d == op[p].doc
           lm == ReadVersion(p)
       IN /\ Finish(p, ResOf(op[p], "ok", lm))
          /\ lastKnownTimestamps' = [lastKnownTimestamps EXCEPT ![p][d] = lm]
          /\ Observed(p, {d})
    /\ UNCHANGED appVars
    /\ UNCHANGED <<clock, fs, configured, nops>>

----------------------------------------------------------------------------
(* writeFile / forceWriteFile -> storage:write *)

(* a client that stores result.lastModified before looking at the conflict flag *)
ClientAfterWriteAlways(p, d, r) ==
    IF r.status \in {"ok", "conflict"}
    THEN [lastKnownTimestamps EXCEPT ![p][d] = r.lastModified]
    ELSE lastKnownTimestamps

(* client side of a write result: a conflict throws ConflictError before the *)
(* cache is touched; only result.success stores result.lastModified          *)
ClientAfterWrite(p, d, r) ==
    IF r.status = "ok"
    THEN [lastKnownTimestamps EXCEPT ![p][d] = r.lastModified]
    ELSE lastKnownTimestamps

(* conflict branch of storage:write: the stored content, best effort *)
ConflictResult(o, d) ==
    LET cur == Parse(fs[FinalPath(d)].text)
    IN [ResOf(o, "conflict", Mtime(d)) EXCEPT
            !.hasCurrent = (cur # ParseError),
            !.currentData = IF cur # ParseError THEN cur ELSE NoData]

(* the request is issued and the handler runs up to its conflict check *)
WriteIssue(p, d, x, kind, expected) ==
    /\ Start(p)
    /\ LET o == [NoOp EXCEPT !.kind = kind, !.doc = d, !.data = x,
                             !.expected = expected,
                             !.existed = Exists(d), !.stored = Mtime(d)]
       IN IF ~configured[p]
          THEN /\ Finish(p, ResOf(o, "fail", 0))
               /\ lastKnownTimestamps' = ClientAfterWrite(p, d, ResOf(o, "fail", 0))
          ELSE IF IsConflict(Exists(d), Mtime(d), expected)
          THEN /\ Finish(p, ConflictResult(o, d))
               /\ lastKnownTimestamps' = ClientAfterWrite(p, d, ConflictResult(o, d))
          ELSE /\ pc' = [pc EXCEPT ![p] = "write_file"]
               /\ op' = [op EXCEPT ![p] = o]
               /\ UNCHANGED <<res, lastKnownTimestamps>>
    /\ UNCHANGED <<clock, fs, configured, unseen, carried>>

WriteRequest(p, d, x, kind, expected) ==
    /\ WriteIssue(p, d, x, kind, expected)
    /\ UNCHANGED appVars

(* expectedLastModified = lastKnownTimestamps.get(filename) ?? 0 *)
writeFile(p, d, x) == WriteRequest(p, d, x, "write", CacheGet(p, d))

(* a forced write that still sends the cached version *)
ForceExpectedCached(p, d) == CacheGet(p, d)

(* expectedLastModified: 0 *)
ForceExpected(p, d) == 0

forceWriteFile(p, d, x) == WriteRequest(p, d, x, "force", ForceExpected(p, d))

(* writeFileSync(filePath, JSON.stringify(req.data)) succeeds *)
writeFileSyncOk(p) ==
    /\ pc[p] = "write_file"
    /\ LET d == op[p].doc
       IN /\ fs' = [fs EXCEPT ![FinalPath(d)] = FileOf(Stringify(op[p].data), clock)]
          /\ Changed(p, d)
    /\ pc' = [pc EXCEPT ![p] = "write_stat"]
    /\ UNCHANGED appVars
    /\ UNCHANGED <<clock, configured, lastKnownTimestamps, op, res, nops>>

(* writeFileSync throws: either the file could not be opened (nothing      *)
(* happens) or the write failed after the file was opened and truncated    *)
writeFileSyncFail(p, partial) ==
    /\ pc[p] = "write_file"
    /\ LET d == op[p].doc
           r == ResOf(op[p], "fail", 0)
       IN /\ IF partial
             THEN /\ fs' = [fs EXCEPT ![FinalPath(d)] = FileOf(PartialText, clock)]
                  /\ Changed(p, d)
             ELSE UNCHANGED <<fs, unseen, carried>>
          /\ Finish(p, r)
          /\ lastKnownTimestamps' = ClientAfterWrite(p, d, r)
    /\ UNCHANGED appVars
    /\ UNCHANGED <<clock, configured, nops>>

(* a handler that returns the mtime it read before writing *)
WrittenVersionStale(p) == op[p].stored

(* const stats = statSync(filePath) after the write; lastModified: stats.mtimeMs *)
WrittenVersion(p) == Mtime(op[p].doc)

(* statSync, return { success: true, lastModified }; client stores it *)
writeStat(p) ==
    /\ pc[p] = "write_stat"
    /\ LET d == op[p].doc
           r == ResOf(op[p], "ok", WrittenVersion(p))
       IN /\ Finish(p, r)
          /\ lastKnownTimestamps' = ClientAfterWrite(p, d, r)
          /\ Observed(p, {d})
    /\ UNCHANGED appVars
    /\ UNCHANGED <<clock, fs, configured, nops>>

----------------------------------------------------------------------------
(* batchSaveSectionsAndHistory -> storage:batchWrite *)

(* client side of a batch result: !result.success throws; otherwise every *)
(* returned timestamp is stored in the cache                               *)
ClientAfterBatch(p, r) ==
    IF r.status = "ok"
    THEN [lastKnownTimestamps EXCEPT ![p] =
            [d \in Docs |-> IF r.timestamps[d] # NoEntry THEN r.timestamps[d] ELSE @[d]]]
    ELSE lastKnownTimestamps

BatchFailure(o, phase, k) ==
    [ResOf(o, "fail", 0) EXCEPT !.phase = phase, !.failedAt = k]

(* the entries are built, the request is issued, the handler checks the config *)
BatchIssue(p, x, withInstr) ==
    /\ Start(p)
    /\ LET o == [NoOp EXCEPT !.kind = "batch", !.data = x,
                             !.entries = BatchEntries(withInstr), !.i = 1]
       IN IF ~configured[p]
          THEN /\ Finish(p, BatchFailure(o, "config", 0))
               /\ lastKnownTimestamps' = ClientAfterBatch(p, BatchFailure(o, "config", 0))
          ELSE /\ pc' = [pc EXCEPT ![p] = "batch_stage"]
               /\ op' = [op EXCEPT ![p] = o]
               /\ UNCHANGED <<res, lastKnownTimestamps>>
    /\ UNCHANGED <<clock, fs, configured, unseen, carried>>

batchSaveSectionsAndHistory(p, x, withInstr) ==
    /\ BatchIssue(p, x, withInstr)
    /\ UNCHANGED appVars

(* a staging write that keeps a staging file it finds in place *)
StagedFileKept(o, d) ==
    IF fs[TmpPath(d)].present THEN fs[TmpPath(d)] ELSE FileOf(Stringify(o.data), clock)

(* writeFileSync(tmpPath, JSON.stringify(entry.data, null, 2), 'utf-8') *)
StagedFile(o, d) == FileOf(Stringify(o.data), clock)

(* phase 1, one entry: writeFileSync(tmpPath, ...) succeeds; tmpPaths.push *)
stageOk(p) ==
    /\ pc[p] = "batch_stage"
    /\ LET o == op[p]
           d == o.entries[o.i]
           last == (o.i = Len(o.entries))
       IN /\ fs' = [fs EXCEPT ![TmpPath(d)] = StagedFile(o, d)]
          /\ op' = [op EXCEPT ![p] = [o EXCEPT !.staged = Append(@, d),
                                               !.i = IF last THEN 1 ELSE @ + 1]]
          /\ pc' = [pc EXCEPT ![p] = IF last THEN "batch_rename" ELSE "batch_stage"]
    /\ UNCHANGED appVars
    /\ UNCHANGED <<clock, configured, lastKnownTimestamps, res, nops, unseen, carried>>

(* phase 1, one entry: writeFileSync(tmpPath, ...) throws, with or without  *)
(* having created the file; the catch unlinks tmpPaths and reports failure  *)
stageFail(p, partial) ==
    /\ pc[p] = "batch_stage"
    /\ LET o == op[p]
           d == o.entries[o.i]
           r == BatchFailure(o, "stage", o.i)
       IN /\ fs' = [q \in Paths |->
                      IF q \in {TmpPath(e) : e \in SeqRange(o.staged)} THEN Absent
                      ELSE IF partial /\ q = TmpPath(d) THEN FileOf(PartialText, clock)
                      ELSE fs[q]]
          /\ Finish(p, r)
          /\ lastKnownTimestamps' = ClientAfterBatch(p, r)
    /\ UNCHANGED appVars
    /\ UNCHANGED <<clock, configured, nops, unseen, carried>>

(* phase 2, one entry: renameSync(tmpPaths[i], finalPaths[i]) succeeds; the *)
(* renamed file keeps the modification time of its staging write            *)
renameOk(p) ==
    /\ pc[p] = "batch_rename"
    /\ LET o == op[p]
           d == o.entries[o.i]
           last == (o.i = Len(o.entries))
       IN /\ fs[TmpPath(d)].present
          /\ fs' = [q \in Paths |->
                      IF q = FinalPath(d) THEN fs[TmpPath(d)]
                      ELSE IF q = TmpPath(d) THEN Absent
                      ELSE fs[q]]
          /\ Changed(p, d)
          /\ op' = [op EXCEPT ![p] = [o EXCEPT !.i = IF last THEN 1 ELSE @ + 1]]
          /\ pc' = [pc EXCEPT ![p] = IF last THEN "batch_stat" ELSE "batch_rename"]
    /\ UNCHANGED appVars
    /\ UNCHANGED <<clock, configured, lastKnownTimestamps, res, nops>>

(* the staging files the rename catch unlinks: tmpPaths[renamedCount.length ..] *)
RenameCleanup(o) == {TmpPath(o.entries[k]) : k \in o.i..Len(o.entries)}

(* phase 2, one entry: renameSync throws (always when the staging file is  *)
(* gone); the catch unlinks tmpPaths[renamedCount.length ..] and reports    *)
renameFail(p) ==
    /\ pc[p] = "batch_rename"
    /\ LET o == op[p]
           r == BatchFailure(o, "rename", o.i)
       IN /\ fs' = [q \in Paths |->
                      IF q \in RenameCleanup(o) THEN Absent ELSE fs[q]]
          /\ Finish(p, r)
          /\ lastKnownTimestamps' = ClientAfterBatch(p, r)
    /\ UNCHANGED appVars
    /\ UNCHANGED <<clock, configured, nops, unseen, carried>>

(* phase 3: statSync of every final path *)
BatchTimestamps(o) ==
    [d \in Docs |-> IF d \in SeqRange(o.entries) /\ Exists(d) THEN Mtime(d) ELSE NoEntry]

(* phase 3 and the client's cache update *)
batchStat(p) ==
    /\ pc[p] = "batch_stat"
    /\ LET r == [ResOf(op[p], "ok", 0) EXCEPT !.timestamps = BatchTimestamps(op[p]),
                                              !.phase = "done"]
       IN /\ Finish(p, r)
          /\ lastKnownTimestamps' = ClientAfterBatch(p, r)
          /\ Observed(p, SeqRange(op[p].entries))
    /\ UNCHANGED appVars
    /\ UNCHANGED <<clock, fs, configured, nops>>

----------------------------------------------------------------------------
Next ==
    \/ Tick
    \/ \E p \in Procs : SelectFolder(p)
    \/ \E p \in Procs, d \in Docs : readFile(p, d)
    \/ \E p \in Procs : readStat(p)
    \/ \E p \in Procs, d \in Docs : writeFile(p, d, DataOf(p))
    \/ \E p \in Procs, d \in ForceDocs : forceWriteFile(p, d, DataOf(p))
    \/ \E p \in Procs : writeFileSyncOk(p)
    \/ \E p \in Procs, partial \in BOOLEAN : writeFileSyncFail(p, partial)
    \/ \E p \in Procs : writeStat(p)
    \/ \E p \in Procs, wi \in BOOLEAN : batchSaveSectionsAndHistory(p, DataOf(p), wi)
    \/ \E p \in Procs : stageOk(p)
    \/ \E p \in Procs, partial \in BOOLEAN : stageFail(p, partial)
    \/ \E p \in Procs : renameOk(p)
    \/ \E p \in Procs : renameFail(p)
    \/ \E p \in Procs : batchStat(p)

Spec == Init /\ [][Next]_vars

----------------------------------------------------------------------------
(* Steps of one process, as seen from outside *)

(* process p issues a request in this step *)
Issues(p) ==
    /\ nops' = nops + 1
    /\ \/ pc'[p] # pc[p]
       \/ pc' = pc /\ res'.proc = p

(* the request p issues in this step *)
Issued(p) == IF pc'[p] # pc[p] THEN op'[p] ELSE res'

IssuesWrite(p) == Issues(p) /\ Issued(p).kind \in {"write", "force"}

(* the request issued by p in this step is answered with a conflict *)
ConflictReported(p) ==
    /\ pc'[p] = "idle"
    /\ res'.proc = p
    /\ res'.status = "conflict"

(* p's rename of its current batch entry succeeds in this step *)
Renames(p) ==
    /\ pc[p] = "batch_rename"
    /\ pc'[p] \in {"batch_rename", "batch_stat"}
    /\ op'[p] # op[p] \/ pc'[p] # pc[p]

FinalDocs == [d \in Docs |-> fs[FinalPath(d)]]

----------------------------------------------------------------------------
(* C1: a batch commit never replaces a document that another process has  *)
(* changed since the committing process last read or wrote it (the save    *)
(* would be rejected as a conflict instead).  Stated for the plainest      *)
(* case: the committing process holds a version read in this folder, and   *)
(* the stored version is more than the tolerance away from it.             *)
C1_NoBlindBatchOverwrite ==
    [][\A p \in Procs :
         LET d == op[p].entries[op[p].i]
         IN (/\ Renames(p)
             /\ lastKnownTimestamps[p][d] # NoEntry /\ d \notin carried[p]
             /\ Abs(Mtime(d) - lastKnownTimestamps[p][d]) > Tolerance)
               => d \notin unseen[p]]_vars

(* C2: a configured write reports a conflict exactly when the document    *)
(* exists, expectedVersion > 0 and the stored version is more than 50 ms   *)
(* away from it; otherwise, unless the file write fails, it persists the   *)
(* content and returns accepted with the version read back after writing.  *)
C2_ConflictIff ==
    [][\A p \in Procs :
         /\ (IssuesWrite(p) /\ configured[p]) =>
               LET d == Issued(p).doc
                   e == Issued(p).expected
                   far == Mtime(d) - e > 50 \/ e - Mtime(d) > 50
               IN /\ ConflictReported(p) <=> (Exists(d) /\ e > 0 /\ far)
                  /\ ~ConflictReported(p) => pc'[p] = "write_file"
         /\ (pc[p] = "write_file" /\ pc'[p] = "write_stat") =>
               fs'[FinalPath(op[p].doc)] = FileOf(Stringify(op[p].data), clock)
         /\ (pc[p] = "write_stat" /\ pc'[p] = "idle") =>
               /\ res'.proc = p /\ res'.status = "ok"
               /\ res'.lastModified = Mtime(op[p].doc)
               /\ res'.lastModified > 0]_vars

(* a conditional write has been rejected with the stored version just     *)
(* outside the tolerance: 51 ms after the expected one                     *)
C2_Witness ==
    /\ res.kind = "write" /\ res.status = "conflict"
    /\ res.expected > 0 /\ res.lastModified - res.expected = 51

(* C3: a write that reports a conflict writes nothing: the folder and the  *)
(* writer's Version Cache are unchanged, and the returned currentContent   *)
(* is the stored content, or is omitted when that cannot be parsed.        *)
C3_ConflictWritesNothing ==
    [][\A p \in Procs :
         (IssuesWrite(p) /\ ConflictReported(p)) =>
            LET stored == fs[FinalPath(res'.doc)]
            IN /\ fs' = fs
               /\ lastKnownTimestamps' = lastKnownTimestamps
               /\ res'.lastModified = stored.mtime
               /\ res'.hasCurrent <=> stored.text.kind = "json"
               /\ res'.hasCurrent => res'.currentData = stored.text.val]_vars

(* a conflict has been reported together with the other user's content *)
C3_Witness ==
    /\ res.kind = "write" /\ res.status = "conflict"
    /\ res.hasCurrent /\ res.currentData # JsonNormal(res.data)

(* a conflict has been reported on a document whose content cannot be parsed *)
C3_WitnessUnparsable ==
    /\ res.kind = "write" /\ res.status = "conflict" /\ ~res.hasCurrent

(* C4: a write with expectedVersion = 0, and any write to a document that  *)
(* does not exist yet, is never rejected as a conflict.                    *)
C4_NoBaselineNoConflict ==
    [][\A p \in Procs :
         (IssuesWrite(p) /\ (Issued(p).expected = 0 \/ ~Exists(Issued(p).doc)))
            => ~ConflictReported(p)]_vars

(* a write carrying a version > 0 for a document that does not exist has   *)
(* been accepted                                                           *)
C4_Witness ==
    /\ res.kind = "write" /\ res.status = "ok"
    /\ res.expected > 0 /\ ~res.existed /\ res.lastModified - res.expected > 50

(* C5: a conditional write is reported as a conflict whenever another      *)
(* process has written the document since the writer last observed its     *)
(* version v and left a stored version other than v, also when that        *)
(* stored version is within 50 ms of v.                                    *)
C5_ExternalEditAlwaysConflicts ==
    [][\A p \in Procs :
         (/\ IssuesWrite(p) /\ configured[p]
          /\ Issued(p).kind = "write" /\ Issued(p).expected > 0
          /\ Issued(p).doc \in unseen[p] /\ Issued(p).doc \notin carried[p]
          /\ Mtime(Issued(p).doc) # Issued(p).expected)
            => ConflictReported(p)]_vars

(* C6: two processes that hold the same version v of an existing document  *)
(* and both write it with expectedVersion v are never both accepted.       *)
C6_AtMostOneAccepted ==
    \A p, q \in Procs :
        ~ /\ p # q
          /\ pc[p] = "write_stat" /\ pc[q] = "write_stat"
          /\ op[p].doc = op[q].doc
          /\ op[p].kind = "write" /\ op[q].kind = "write"
          /\ op[p].existed /\ op[q].existed
          /\ op[p].expected > 0 /\ op[p].expected = op[q].expected
          /\ op[p].stored = op[p].expected /\ op[q].stored = op[q].expected

(* C7: a conditional write that follows an accepted write of the same      *)
(* process to the same document, with no other writer in between, carries  *)
(* the version that write returned and is not rejected.                    *)
C7_OwnChainNeverRejected ==
    [][\A p \in Procs :
         (/\ IssuesWrite(p) /\ Issued(p).kind = "write"
          /\ res.proc = p /\ res.kind \in {"write", "force"} /\ res.status = "ok"
          /\ res.doc = Issued(p).doc
          /\ res.doc \notin unseen[p])
            => /\ Issued(p).expected = res.lastModified
               /\ ~ConflictReported(p)]_vars

(* the second write of such a chain has been accepted, more than 50 ms     *)
(* after the first                                                         *)
C7_Witness ==
    /\ res.kind = "write" /\ res.status = "ok" /\ res.existed
    /\ res.expected > 0 /\ res.stored = res.expected
    /\ res.lastModified - res.expected > 50
    /\ \A q \in Procs \ {res.proc} : ~configured[q]

(* C8: a successful write to an existing document, single or by batch      *)
(* commit, made when the store clock is past the stored version leaves a   *)
(* strictly greater stored version; a read, a rejected write and a failed  *)
(* write leave the stored version as it was.                               *)
C8_VersionStrictlyIncreases ==
    [][\A p \in Procs :
         /\ (pc[p] = "write_file" /\ pc'[p] = "write_stat"
               /\ Exists(op[p].doc) /\ clock > Mtime(op[p].doc))
              => fs'[FinalPath(op[p].doc)].mtime > Mtime(op[p].doc)
         /\ (Renames(p) /\ Exists(op[p].entries[op[p].i])
               /\ clock > Mtime(op[p].entries[op[p].i]))
              => fs'[FinalPath(op[p].entries[op[p].i])].mtime > Mtime(op[p].entries[op[p].i])
         /\ (\/ Issues(p)
             \/ /\ pc[p] \in {"read_stat", "write_stat", "batch_stage", "batch_stat"}
                /\ pc'[p] # pc[p] \/ op'[p] # op[p]
             \/ pc[p] = "batch_rename" /\ pc'[p] = "idle")
              => \A d \in Docs : fs'[FinalPath(d)].mtime = Mtime(d)]_vars

(* C9: write(name, X, 0) followed by read(name), with no other writer      *)
(* (no other process has the folder configured),                           *)
(* returns X (as a JSON value) and the version the write returned, which   *)
(* is > 0 and becomes the reader's Version Cache entry.                    *)
C9_RoundTrip ==
    [][\A p \in Procs :
         LET after == /\ res.proc = p /\ res.kind \in {"write", "force"}
                      /\ res.status = "ok" /\ res.expected = 0
                      /\ \A q \in Procs \ {p} : ~configured[q]
         IN /\ (after /\ Issues(p) /\ Issued(p).kind = "read" /\ Issued(p).doc = res.doc)
                 => pc'[p] = "read_stat"
            /\ (after /\ pc[p] = "read_stat" /\ pc'[p] = "idle" /\ op[p].doc = res.doc)
                 => /\ res'.status = "ok"
                    /\ res'.data = JsonNormal(res.data)
                    /\ res'.lastModified = res.lastModified
                    /\ res.lastModified > 0
                    /\ lastKnownTimestamps'[p][res.doc] = res.lastModified]_vars

(* C9 as first stated: the read returns exactly the value X that was       *)
(* handed to write(name, X, 0).                                            *)
C9_RoundTripVerbatim ==
    [][\A p \in Procs :
         (/\ res.proc = p /\ res.kind \in {"write", "force"}
          /\ res.status = "ok" /\ res.expected = 0
          /\ \A q \in Procs \ {p} : ~configured[q]
          /\ pc[p] = "read_stat" /\ pc'[p] = "idle" /\ op[p].doc = res.doc)
            => /\ res'.status = "ok"
               /\ res'.data = res.data
               /\ res'.lastModified = res.lastModified
               /\ res.lastModified > 0]_vars

(* p1 wrote a record with an undefined property under expectedVersion 0,  *)
(* the store clock moved on, and p1's read of the same document has parsed *)
(* the stored text and is about to return the version                      *)
C9_Witness ==
    /\ res.proc = "p1" /\ res.kind \in {"write", "force"}
    /\ res.status = "ok" /\ res.expected = 0 /\ res.data = "X1u"
    /\ pc["p1"] = "read_stat" /\ op["p1"].doc = res.doc
    /\ op["p1"].data = "X1"
    /\ Mtime(res.doc) = res.lastModified
    /\ lastKnownTimestamps["p1"][res.doc] = res.lastModified
    /\ clock > res.lastModified
    /\ ~configured["p2"]

(* C10: while a batch commit is staging, and when staging fails, no final  *)
(* document changes content or version and the caller's Version Cache is   *)
(* not modified; a staging failure is reported as a failed batch.          *)
C10_StagingFailureAtomic ==
    [][\A p \in Procs :
         (pc[p] = "batch_stage" /\ (pc'[p] # pc[p] \/ op'[p] # op[p]))
            => /\ FinalDocs' = FinalDocs
               /\ lastKnownTimestamps' = lastKnownTimestamps
               /\ pc'[p] = "idle" =>
                    /\ res'.proc = p /\ res'.kind = "batch"
                    /\ res'.status = "fail" /\ res'.phase = "stage"]_vars

(* staging has failed on the second entry of a batch *)
C10_Witness ==
    /\ res.kind = "batch" /\ res.status = "fail"
    /\ res.phase = "stage" /\ res.failedAt = 2

(* C11: when a batch commit fails while staging, no staging file of the    *)
(* batch is left in the folder, the one of the failing entry included      *)
(* (no other process uses the folder).                                     *)
C11_StagingRolledBack ==
    [][\A p \in Procs :
         (/\ pc[p] = "batch_stage" /\ pc'[p] = "idle"
          /\ \A q \in Procs \ {p} : ~configured[q])
            => \A k \in 1..Len(op[p].entries) :
                  ~fs'[TmpPath(op[p].entries[k])].present]_vars

(* C12: a step of the rename phase changes no final document other than    *)
(* the entry being renamed, which it replaces by the complete new content  *)
(* and only in entry order; a rename failure ends the batch with a failure *)
(* result, changes no final document, and (no other process using the      *)
(* folder) leaves no staging file of the batch behind.                     *)
C12_RenameFailurePrefix ==
    [][\A p \in Procs :
         (pc[p] = "batch_rename" /\ (pc'[p] # pc[p] \/ op'[p] # op[p])) =>
            LET o == op[p]
                d == o.entries[o.i]
            IN /\ \A e \in Docs \ {d} : fs'[FinalPath(e)] = fs[FinalPath(e)]
               /\ fs'[FinalPath(d)] # fs[FinalPath(d)] =>
                     /\ fs'[FinalPath(d)].text = Stringify(o.data)
                     /\ pc'[p] \in {"batch_rename", "batch_stat"}
               /\ pc'[p] = "batch_rename" => op'[p].i = o.i + 1
               /\ pc'[p] = "idle" =>
                     /\ res'.proc = p /\ res'.status = "fail"
                     /\ res'.phase = "rename" /\ res'.failedAt = o.i
                     /\ FinalDocs' = FinalDocs
                     /\ (\A q \in Procs \ {p} : ~configured[q]) =>
                            \A e \in SeqRange(o.entries) : ~fs'[TmpPath(e)].present]_vars

----------------------------------------------------------------------------
(* The renderer of one application process: the save effect and its        *)
(* promise chain (App.tsx:134-205), the reload effect (App.tsx:120-130),   *)
(* handleInstructorSave (App.tsx:406-419).  The main process serves the    *)
(* requests of its own renderer one at a time and in the order sent, so a  *)
(* request is answered in one step; callbacks queued on the promise chain  *)
(* run before the next user event.                                         *)

MaxGen == 4
MaxInFlight == 3

App == "p1"
Terms == {"T1", "T2"}
Ledger == "instructors"
AppDocs == Terms \cup {Ledger}

(* a sections document: the instructor field of each of its sections *)
SectionLists == {<<>>, <<"A">>, <<"B">>}

(* the catalog holds one instructor, named "A" *)
Tracked == "A"
NoHist == <<"nohist">>
NoEdit == <<"noedit">>

(* sectionsSnapshot.filter(s => s.instructor === inst.name).map(...) *)
EntriesFor(name, secs) == SelectSeq(secs, LAMBDA x : x = name)

(* an update that rebuilds the history from the current term alone *)
UpdatedHistoryOnly(h, secs, term) ==
    [t \in Terms |-> IF t = term THEN EntriesFor(Tracked, secs) ELSE NoHist]

(* const history = { ...inst.history, [termKey]: entries } *)
UpdatedHistory(h, secs, term) == [h EXCEPT ![term] = EntriesFor(Tracked, secs)]

(* JSON.stringify(inst.history) !== JSON.stringify(instrSnapshot[i].history) *)
InstrChanged(h, secs, term) == UpdatedHistory(h, secs, term) # h

NoReq == [kind |-> "none", gen |-> 0, doc |-> "none", entries |-> <<>>, expected |-> 0]

(* entries of batchSaveSectionsAndHistory(sections, year, semester, instructors?) *)
SaveEntries(task) ==
    <<[doc |-> task.term, data |-> task.sections]>> \o
    (IF InstrChanged(task.instr, task.sections, task.term)
     THEN <<[doc |-> Ledger, data |-> UpdatedHistory(task.instr, task.sections, task.term)]>>
     ELSE <<>>)

(* a chain on which every callback is attached to an already resolved promise *)
CanStartAny(k) == TRUE

(* saveQueue.current.then(...): a callback runs once its predecessor has settled *)
CanStart(k) == k = 1

(* a callback of the promise chain is ready: it runs before any user event *)
MicrotaskReady ==
    \E k \in 1..Len(saveQueue) : saveQueue[k].state = "pending" /\ CanStart(k)

(* an effect that reads the counter before incrementing it: gen = saveGeneration.current++ *)
EnqueuedPostIncrement(secs, term, instr) ==
    Append(saveQueue, [gen |-> saveGeneration, sections |-> secs, term |-> term,
                       instr |-> instr, state |-> "pending"])

(* the save effect: ++saveGeneration.current, capture the snapshots, chain the task *)
Enqueued(secs, term, instr) ==
    Append(saveQueue, [gen |-> saveGeneration + 1, sections |-> secs, term |-> term,
                       instr |-> instr, state |-> "pending"])

(* history: one more enqueue since the chain was last idle; user records    *)
(* whether all of them came from handleSubmit                              *)
BurstAfterEnqueue(byUser) ==
    IF saveQueue = <<>> THEN [edits |-> 1, writes |-> 0, user |-> byUser]
    ELSE [burst EXCEPT !.edits = @ + 1, !.user = @ /\ byUser]

(* a chain on which a settled task stays in front of its successors *)
TaskKept(g) == saveQueue

(* the task of generation g has settled: its successor is next *)
WithoutTask(g) == SelectSeq(saveQueue, LAMBDA t : t.gen # g)

AppFile(d) == fs[FinalPath(d)]

(* JSON.stringify of a value without undefined properties *)
AppText(x) == [kind |-> "json", val |-> x]

NoStore ==
    /\ configured = [p \in Procs |-> p = App]
    /\ pc = [p \in Procs |-> "idle"] /\ op = [p \in Procs |-> NoOp]
    /\ res = NoRes /\ nops = 0
    /\ unseen = [p \in Procs |-> {}] /\ carried = [p \in Procs |-> {}]

storeIdle == <<configured, pc, op, res, nops, unseen, carried>>

(* The state after init() (App.tsx:89-117): term T1 and the catalog are     *)
(* loaded and cached.  The renders caused by init()'s setState calls run    *)
(* the save effect once with initialLoadDone already set, or not at all,    *)
(* depending on how the renderer batches them.                              *)
AppInit ==
    /\ clock = InitTime
    /\ NoStore
    /\ \E s1 \in {<<>>, <<"A">>}, h1 \in BOOLEAN, initialSave \in BOOLEAN :
         LET h == [t \in Terms |-> IF t = "T2" THEN <<"A">>
                                   ELSE IF ~h1 THEN NoHist
                                   ELSE EntriesFor(Tracked, s1)]
         IN /\ fs = [q \in {FinalPath(d) : d \in AppDocs} |->
                       IF q = FinalPath("T1") THEN FileOf(AppText(s1), InitTime)
                       ELSE IF q = FinalPath("T2") THEN FileOf(AppText(<<"A">>), InitTime)
                       ELSE FileOf(AppText(h), InitTime)]
            /\ sections = s1
            /\ instructors = h
            /\ saveGeneration = IF initialSave THEN 1 ELSE 0
            /\ saveQueue = IF initialSave
                           THEN <<[gen |-> 1, sections |-> s1, term |-> "T1",
                                   instr |-> h, state |-> "pending"]>>
                           ELSE <<>>
            /\ burst = [edits |-> IF initialSave THEN 1 ELSE 0, writes |-> 0,
                        user |-> FALSE]
    /\ lastKnownTimestamps =
          [p \in {App} |-> [d \in AppDocs |-> IF d = "T2" THEN NoEntry ELSE InitTime]]
    /\ selectedTerm = "T1"
    /\ ipc = <<>>
    /\ saveError = FALSE /\ showConflict = FALSE
    /\ lastEdit = [t \in Terms |-> NoEdit]
    /\ failed = FALSE

(* loadSections requests not yet answered: each will run the save effect *)
PendingLoads == Cardinality({k \in 1..Len(ipc) : ipc[k].kind = "read"})

UserEvent(enqueues) ==
    /\ ~MicrotaskReady
    /\ Len(ipc) < MaxInFlight
    /\ saveGeneration + PendingLoads + enqueues <= MaxGen

(* handleSubmit: setSections(updated); the save effect runs *)
handleSubmit(new) ==
    /\ UserEvent(1)
    /\ new # sections
    /\ sections' = new
    /\ saveGeneration' = saveGeneration + 1
    /\ saveQueue' = Enqueued(new, selectedTerm, instructors)
    /\ lastEdit' = [lastEdit EXCEPT ![selectedTerm] = new]
    /\ burst' = BurstAfterEnqueue(TRUE)
    /\ UNCHANGED <<selectedTerm, instructors, ipc, saveError, showConflict, failed>>
    /\ UNCHANGED storeVars

(* setSelectedYear / setSelectedSemester: the reload effect sends           *)
(* loadSections, then the save effect runs with the sections still shown    *)
selectTerm(t) ==
    /\ UserEvent(2)
    /\ t # selectedTerm
    /\ selectedTerm' = t
    /\ ipc' = Append(ipc, [NoReq EXCEPT !.kind = "read", !.doc = t])
    /\ saveGeneration' = saveGeneration + 1
    /\ saveQueue' = Enqueued(sections, t, instructors)
    /\ burst' = BurstAfterEnqueue(FALSE)
    /\ UNCHANGED <<sections, instructors, saveError, showConflict, lastEdit, failed>>
    /\ UNCHANGED storeVars

(* handleInstructorSave without renames: setInstructors(list);              *)
(* saveInstructors(list) is called without await and outside the chain      *)
handleInstructorSave ==
    /\ UserEvent(0)
    /\ \A k \in 1..Len(ipc) : ipc[k].kind # "write"
    /\ ipc' = Append(ipc, [NoReq EXCEPT !.kind = "write", !.doc = Ledger,
                                        !.entries = <<[doc |-> Ledger, data |-> instructors]>>,
                                        !.expected = CacheGet(App, Ledger)])
    /\ UNCHANGED <<sections, selectedTerm, instructors, saveGeneration, saveQueue,
                   saveError, showConflict, lastEdit, failed, burst>>
    /\ UNCHANGED storeVars

(* a check that lets every task through *)
NeverStale(g) == FALSE

(* the comparison turned round: the newest task is the one discarded *)
IsStaleInverted(g) == g = saveGeneration

(* if (gen !== saveGeneration.current) return; *)
IsStale(g) == g # saveGeneration

(* the chained callback up to its await: generation check, history          *)
(* computation, second check, batchSaveSectionsAndHistory is called         *)
saveTask(k) ==
    /\ k \in 1..Len(saveQueue)
    /\ saveQueue[k].state = "pending"
    /\ CanStart(k)
    /\ LET task == saveQueue[k]
       IN IF IsStale(task.gen)
          THEN /\ saveQueue' = WithoutTask(task.gen)
               /\ ipc' = ipc
          ELSE /\ saveQueue' = [saveQueue EXCEPT ![k].state = "running"]
               /\ ipc' = Append(ipc, [NoReq EXCEPT !.kind = "batch", !.gen = task.gen,
                                                   !.doc = task.term,
                                                   !.entries = SaveEntries(task)])
    /\ UNCHANGED <<sections, selectedTerm, instructors, saveGeneration,
                   saveError, showConflict, lastEdit, failed, burst>>
    /\ UNCHANGED storeVars

(* the files after the first n entries of a batch have been renamed *)
Renamed(entries, n) ==
    [q \in DOMAIN fs |->
        IF \E k \in 1..n : q = FinalPath(entries[k].doc)
        THEN FileOf(AppText(entries[CHOOSE k \in 1..n : q = FinalPath(entries[k].doc)].data),
                    clock)
        ELSE fs[q]]

(* storage:batchWrite has answered the head request and the callback of     *)
(* App.tsx:179-204 has run: setInstructors on success, showError on failure *)
batchWriteDone(outcome) ==
    /\ ipc # <<>> /\ Head(ipc).kind = "batch"
    /\ LET req == Head(ipc)
           es == req.entries
       IN /\ ipc' = Tail(ipc)
          /\ saveQueue' = WithoutTask(req.gen)
          /\ CASE outcome = "ok" ->
                    /\ fs' = Renamed(es, Len(es))
                    /\ lastKnownTimestamps' =
                          [lastKnownTimestamps EXCEPT ![App] =
                              [d \in AppDocs |->
                                  IF \E k \in 1..Len(es) : es[k].doc = d THEN clock ELSE @[d]]]
                    /\ instructors' = IF Len(es) = 2 THEN es[2].data ELSE instructors
                    /\ burst' = [burst EXCEPT !.writes = @ + 1]
                    /\ UNCHANGED <<saveError, failed>>
               [] outcome = "stage" ->
                    /\ saveError' = TRUE /\ failed' = TRUE
                    /\ UNCHANGED <<fs, lastKnownTimestamps, instructors, burst>>
               [] outcome = "rename" ->
                    /\ Len(es) = 2
                    /\ fs' = Renamed(es, 1)
                    /\ saveError' = TRUE /\ failed' = TRUE
                    /\ UNCHANGED <<lastKnownTimestamps, instructors, burst>>
    /\ UNCHANGED <<sections, selectedTerm, saveGeneration, showConflict, lastEdit>>
    /\ UNCHANGED <<clock, storeIdle>>

(* storage:read has answered loadSections of the reload effect:             *)
(* setSections(sects), and the save effect runs                             *)
loadSectionsDone ==
    /\ ~MicrotaskReady
    /\ ipc # <<>> /\ Head(ipc).kind = "read"
    /\ LET d == Head(ipc).doc
           data == Parse(AppFile(d).text)
       IN /\ ipc' = Tail(ipc)
          /\ lastKnownTimestamps' = [lastKnownTimestamps EXCEPT ![App][d] = AppFile(d).mtime]
          /\ sections' = data
          /\ saveGeneration' = saveGeneration + 1
          /\ saveQueue' = Enqueued(data, selectedTerm, instructors)
          /\ lastEdit' = [lastEdit EXCEPT ![d] = NoEdit]
          /\ burst' = BurstAfterEnqueue(FALSE)
    /\ UNCHANGED <<selectedTerm, instructors, saveError, showConflict, failed>>
    /\ UNCHANGED <<clock, fs, storeIdle>>

(* storage:write has answered saveInstructors; a ConflictError or a failure *)
(* has no handler at App.tsx:408                                            *)
saveInstructorsDone(ok) ==
    /\ ~MicrotaskReady
    /\ ipc # <<>> /\ Head(ipc).kind = "write"
    /\ LET req == Head(ipc)
           f == AppFile(Ledger)
       IN /\ ipc' = Tail(ipc)
          /\ IF IsConflict(f.present, f.mtime, req.expected)
             THEN UNCHANGED <<fs, lastKnownTimestamps, failed>>
             ELSE IF ok
             THEN /\ fs' = [fs EXCEPT ![FinalPath(Ledger)] =
                                FileOf(AppText(req.entries[1].data), clock)]
                  /\ lastKnownTimestamps' = [lastKnownTimestamps EXCEPT ![App][Ledger] = clock]
                  /\ failed' = failed
             ELSE /\ failed' = TRUE
                  /\ UNCHANGED <<fs, lastKnownTimestamps>>
    /\ UNCHANGED <<sections, selectedTerm, instructors, saveGeneration, saveQueue,
                   saveError, showConflict, lastEdit, burst>>
    /\ UNCHANGED <<clock, storeIdle>>

AppNext ==
    \/ Tick
    \/ \E new \in SectionLists : handleSubmit(new)
    \/ \E t \in Terms : selectTerm(t)
    \/ handleInstructorSave
    \/ \E k \in 1..MaxGen : saveTask(k)
    \/ \E outcome \in {"ok", "stage", "rename"} : batchWriteDone(outcome)
    \/ loadSectionsDone
    \/ \E ok \in BOOLEAN : saveInstructorsDone(ok)

AppSpec == AppInit /\ [][AppNext]_vars

(* nothing is queued and no request is in flight *)
Quiescent == saveQueue = <<>> /\ ipc = <<>>

InFlight(kinds) == {k \in 1..Len(ipc) : ipc[k].kind \in kinds}

Running == {k \in 1..Len(saveQueue) : saveQueue[k].state = "running"}

----------------------------------------------------------------------------
(* C13: at most one save task is executing, at most one of the chain's     *)
(* batch commits is in flight, and the executing task is the oldest one    *)
(* still on the chain: every task enqueued before it has completed,        *)
(* failed or been skipped.                                                 *)
C13_SingleFlight ==
    /\ Cardinality(Running) <= 1
    /\ Cardinality(InFlight({"batch"})) <= 1
    /\ Running \subseteq {1}
    /\ InFlight({"batch"}) # {} => Running = {1}

(* a save is in flight while two newer tasks wait behind it *)
C13_Witness ==
    /\ Len(saveQueue) = 3
    /\ saveQueue[1].state = "running"
    /\ saveQueue[2].state = "pending" /\ saveQueue[3].state = "pending"
    /\ InFlight({"batch"}) # {}

(* C14: no store write of this process is issued while another store write *)
(* of the same process is still in flight.                                 *)
C14_WritesNeverInterleaved ==
    Cardinality(InFlight({"batch", "write"})) <= 1

(* C15: three edits enqueued before the chain has become idle again result *)
(* in exactly one commit, and it stores the third edit.                     *)
C15_Coalescing ==
    [][(/\ saveQueue # <<>> /\ saveQueue' = <<>>
        /\ burst.user /\ burst.edits = 3 /\ ~failed')
          => /\ burst'.writes = 1
             /\ Parse(fs'[FinalPath(selectedTerm)].text) = sections]_vars

(* C15 as the code has it: a commit is issued only for the newest snapshot  *)
(* enqueued so far, a task is discarded only when a newer one is queued     *)
(* behind it, and once the chain is idle after a run of edits the store     *)
(* holds the last of them.  An edit that finds the chain idle is committed  *)
(* at once, so the first edit of a run reaches the store as well.           *)
C15_NewestOnly ==
    [][/\ \A k \in 1..Len(saveQueue) :
            saveQueue[k].state = "pending" =>
              /\ (Len(saveQueue') = Len(saveQueue) /\ saveQueue'[k].state = "running")
                    => /\ k = Len(saveQueue)
                       /\ saveQueue[k].gen = saveGeneration
                       /\ ipc'[Len(ipc')].entries[1].data = saveQueue[k].sections
              /\ (saveQueue' = WithoutTask(saveQueue[k].gen) /\ saveQueue' # saveQueue)
                    => /\ k < Len(saveQueue)
                       /\ ipc' = ipc /\ fs' = fs
       /\ (/\ saveQueue # <<>> /\ saveQueue' = <<>>
           /\ burst.user /\ ~failed')
             => Parse(fs'[FinalPath(selectedTerm)].text) = sections]_vars

(* three edits were made while the commit of an earlier one was in flight: *)
(* that commit and the commit of the third are the only two                 *)
C15_Witness ==
    /\ Quiescent /\ ~failed
    /\ burst.user /\ burst.edits = 4 /\ burst.writes = 2
    /\ Parse(AppFile(selectedTerm).text) = sections

(* C16: when nothing is queued or in flight and no store operation has     *)
(* failed, the user's latest edit of every term is what the store holds    *)
(* for that term.                                                          *)
C16_NoEditLost ==
    (Quiescent /\ ~failed) =>
        \A t \in Terms : lastEdit[t] # NoEdit => Parse(AppFile(t).text) = lastEdit[t]

(* C17: a save whose sections reference the instructor exactly as the      *)
(* stored sections of that term do does not put instructors.json into its  *)
(* batch.                                                                  *)
C17_LedgerSkipped ==
    [][\A k \in 1..Len(saveQueue) :
         (/\ saveQueue[k].state = "pending"
          /\ Len(saveQueue') = Len(saveQueue) /\ saveQueue'[k].state = "running"
          /\ EntriesFor(Tracked, saveQueue[k].sections)
               = EntriesFor(Tracked, Parse(AppFile(saveQueue[k].term).text)))
            => \A e \in SeqRange(ipc'[Len(ipc')].entries) : e.doc # Ledger]_vars

(* C18: a successful save leaves the stored history entry of every term    *)
(* other than the save's own term as it was before the save.               *)
C18_OtherTermsUntouched ==
    [][(/\ ipc # <<>> /\ Head(ipc).kind = "batch"
        /\ ipc' = Tail(ipc) /\ ~saveError' /\ failed' = failed)
          => \A t \in Terms \ {Head(ipc).doc} :
                Parse(fs'[FinalPath(Ledger)].text)[t] = Parse(AppFile(Ledger).text)[t]]_vars

----------------------------------------------------------------------------
(* The conflict dialog (App.tsx:436-446, 663-668).                          *)
(*                                                                          *)
(* The handlers are modelled in the state they are written for: the dialog  *)
(* is open for the sections document of the selected term, which this       *)
(* process loaded at InitTime and edited in memory, and which another       *)
(* process has saved since.  The other process keeps saving while the       *)
(* handler runs.  Here "sections" is the document of the selected term and  *)
(* the variable sections its content in memory.                             *)

Other == "p2"
Shown == "sections"

(* loadSections(...) = readFile(filename, []) *)
EmptySections == "[]"

(* the version the other process's save gave the document *)
ConflictTime == InitTime + Tolerance + 1

DialogInit ==
    /\ clock = ConflictTime
    /\ fs = [q \in Paths |->
               IF q = FinalPath(Shown) THEN FileOf(Stringify(DataOf(Other)), ConflictTime)
               ELSE IF q = FinalPath("instructors")
               THEN FileOf(Stringify(DataOf(Other)), InitTime)
               ELSE Absent]
    /\ configured = [p \in Procs |-> TRUE]
    /\ lastKnownTimestamps =
          [p \in Procs |-> [d \in Docs |->
              IF p = Other /\ d = Shown THEN ConflictTime ELSE InitTime]]
    /\ pc = [p \in Procs |-> "idle"]
    /\ op = [p \in Procs |-> NoOp]
    /\ res = NoRes
    /\ nops = 0
    /\ unseen = [p \in Procs |-> IF p = App THEN {Shown} ELSE {}]
    /\ carried = [p \in Procs |-> {}]
    /\ sections = DataOf(App)
    /\ showConflict = TRUE
    /\ selectedTerm = "none" /\ instructors = <<>>
    /\ saveGeneration = 0 /\ saveQueue = <<>> /\ ipc = <<>>
    /\ saveError = FALSE /\ lastEdit = <<>> /\ failed = FALSE /\ burst = <<>>

dialogFrame == <<selectedTerm, instructors, ipc, saveError, lastEdit, failed, burst>>

(* setSections(sects) with a new array: the save effect runs and chains a task *)
SaveEffect(secs) ==
    /\ saveGeneration' = saveGeneration + 1
    /\ saveQueue' = Enqueued(secs, selectedTerm, instructors)

(* one millisecond passes *)
TickMs ==
    /\ clock < MaxTime
    /\ clock' = clock + 1
    /\ UNCHANGED <<fs, configured, lastKnownTimestamps, pc, op, res, nops, unseen, carried>>
    /\ UNCHANGED appVars

(* setShowConflict(false); await forceSaveSections(sections, year, semester) *)
handleConflictOverwrite ==
    /\ showConflict
    /\ showConflict' = FALSE
    /\ WriteIssue(App, Shown, sections, "force", ForceExpected(App, Shown))
    /\ UNCHANGED <<sections, saveGeneration, saveQueue, dialogFrame>>

(* setShowConflict(false); refreshTimestamp(...); loadSections(...) up to   *)
(* the handler's readFileSync + JSON.parse; a read that yields no data      *)
(* returns the fallback and setSections([]) runs                            *)
handleConflictReload ==
    /\ showConflict
    /\ showConflict' = FALSE
    /\ Start(App)
    /\ LET d == Shown
           o == [NoOp EXCEPT !.kind = "reload", !.doc = d,
                             !.existed = Exists(d), !.stored = Mtime(d)]
           t == fs[FinalPath(d)].text
       IN IF ~configured[App] \/ ~Exists(d) \/ Parse(t) = ParseError
          THEN /\ Finish(App, ResOf(o, "absent", 0))
               /\ sections' = EmptySections
               /\ SaveEffect(EmptySections)
          ELSE /\ pc' = [pc EXCEPT ![App] = "reload_stat"]
               /\ op' = [op EXCEPT ![App] = [o EXCEPT !.data = Parse(t)]]
               /\ UNCHANGED <<res, sections, saveGeneration, saveQueue>>
    /\ lastKnownTimestamps' = [lastKnownTimestamps EXCEPT ![App][Shown] = NoEntry]
    /\ UNCHANGED <<clock, fs, configured, unseen, carried>>
    /\ UNCHANGED dialogFrame

(* statSync, return { data, lastModified }; readFile stores the version and *)
(* returns the data; setSections(sects)                                     *)
reloadStat ==
    /\ pc[App] = "reload_stat"
    /\ LET lm == ReadVersion(App)
       IN /\ Finish(App, ResOf(op[App], "ok", lm))
          /\ lastKnownTimestamps' = [lastKnownTimestamps EXCEPT ![App][Shown] = lm]
          /\ Observed(App, {Shown})
    /\ sections' = op[App].data
    /\ SaveEffect(op[App].data)
    /\ UNCHANGED <<clock, fs, configured, nops>>
    /\ UNCHANGED <<showConflict, dialogFrame>>

(* the task chained by the reload runs: it is current, and it commits the   *)
(* sections just loaded with batchSaveSectionsAndHistory                    *)
saveAfterReload ==
    /\ saveQueue # <<>>
    /\ ~IsStale(Head(saveQueue).gen)
    /\ saveQueue' = Tail(saveQueue)
    /\ \E withInstr \in BOOLEAN : BatchIssue(App, Head(saveQueue).sections, withInstr)
    /\ UNCHANGED <<sections, showConflict, saveGeneration, dialogFrame>>

DialogNext ==
    \/ TickMs
    \/ handleConflictOverwrite
    \/ handleConflictReload
    \/ reloadStat
    \/ saveAfterReload
    \/ \E p \in Procs : writeFileSyncOk(p)
    \/ \E p \in Procs, partial \in BOOLEAN : writeFileSyncFail(p, partial)
    \/ \E p \in Procs : writeStat(p)
    \/ batchSaveSectionsAndHistory(Other, DataOf(Other), FALSE)
    \/ \E p \in Procs : stageOk(p)
    \/ \E p \in Procs, partial \in BOOLEAN : stageFail(p, partial)
    \/ \E p \in Procs : renameOk(p)
    \/ \E p \in Procs : renameFail(p)
    \/ \E p \in Procs : batchStat(p)

DialogSpec == DialogInit /\ [][DialogNext]_vars

----------------------------------------------------------------------------
(* C19: choosing Overwrite re-issues the write with expected version 0, so *)
(* it is not rejected; the write puts the serialised in-memory content     *)
(* into the document; when it returns, the cache entry of the document is   *)
(* the version it returned; the in-memory content is the same throughout.  *)
C19_Overwrite ==
    [][/\ (/\ showConflict /\ ~showConflict'
           /\ (op'[App].kind = "force" \/ (res'.kind = "force" /\ res' # res)))
             => /\ pc'[App] = "write_file"
                /\ op'[App].doc = Shown /\ op'[App].expected = 0
                /\ op'[App].data = sections
       /\ (/\ pc[App] = "write_file" /\ op[App].kind = "force"
           /\ pc'[App] = "write_stat")
             => fs'[FinalPath(Shown)] = FileOf(Stringify(sections), clock)
       /\ (/\ pc[App] = "write_stat" /\ op[App].kind = "force"
           /\ pc'[App] = "idle")
             => /\ res'.status = "ok"
                /\ lastKnownTimestamps'[App][Shown] = res'.lastModified
       /\ (op[App].kind = "force" \/ op'[App].kind = "force") => sections' = sections]_vars

(* the forced write has returned and nobody has written since *)
C19_Witness ==
    /\ ~showConflict
    /\ res.proc = App /\ res.kind = "force" /\ res.status = "ok" /\ res.expected = 0
    /\ sections = DataOf(App)
    /\ fs[FinalPath(Shown)].text = Stringify(sections)
    /\ lastKnownTimestamps[App][Shown] = res.lastModified
    /\ Mtime(Shown) = res.lastModified
    /\ pc[Other] = "batch_stage"

----------------------------------------------------------------------------
(* C21: every conflict result the store returns to the application opens   *)
(* the conflict dialog.                                                     *)
C21_ConflictOpensDialog ==
    [][(/\ ipc # <<>> /\ Head(ipc).kind = "write" /\ ipc' = Tail(ipc)
        /\ IsConflict(AppFile(Ledger).present, AppFile(Ledger).mtime, Head(ipc).expected))
          => showConflict']_vars

----------------------------------------------------------------------------
(* What a storage.ts function hands its caller for the handler's result r: *)
(* readFile returns the data or the fallback; writeFile throws             *)
(* ConflictError on result.conflict and otherwise returns, whatever        *)
(* result.success is; forceWriteFile always returns;                       *)
(* batchSaveSectionsAndHistory throws on !result.success.                  *)
ClientOutcome(r) ==
    CASE r.kind \in {"read", "reload"} ->
            [raised |-> FALSE, reported |-> IF r.status = "ok" THEN "data" ELSE "fallback"]
      [] r.kind = "write" ->
            IF r.status = "conflict" THEN [raised |-> TRUE, reported |-> "conflict"]
            ELSE [raised |-> FALSE, reported |-> "done"]
      [] r.kind = "force" -> [raised |-> FALSE, reported |-> "done"]
      [] r.kind = "batch" ->
            IF r.status = "ok" THEN [raised |-> FALSE, reported |-> "done"]
            ELSE [raised |-> TRUE, reported |-> "failed"]
      [] OTHER -> [raised |-> FALSE, reported |-> "none"]

(* C22: a request of a process without a configured folder creates or      *)
(* changes no file and no cache entry; a read gives its caller the         *)
(* fallback, a write or batch commit tells its caller that it failed, and  *)
(* does so without throwing.                                               *)
C22_NotConfigured ==
    [][\A p \in Procs :
         (Issues(p) /\ ~configured[p]) =>
            /\ fs' = fs
            /\ lastKnownTimestamps' = lastKnownTimestamps
            /\ pc'[p] = "idle" /\ res'.proc = p
            /\ IF res'.kind = "read"
               THEN ClientOutcome(res').reported = "fallback"
               ELSE /\ ~ClientOutcome(res').raised
                    /\ ClientOutcome(res').reported = "failed"]_vars

(* C23: a write or batch commit that fails on an I/O error tells its       *)
(* caller that it failed.                                                  *)
C23_IOFailureSurfaced ==
    [][\A p \in Procs :
         (/\ pc[p] \in {"write_file", "batch_stage", "batch_rename"}
          /\ pc'[p] = "idle" /\ res'.proc = p /\ res'.status = "fail")
            => ClientOutcome(res').reported = "failed"]_vars

(* C24: when a read that found the document, an accepted write or a        *)
(* successful batch commit returns, the cache entry of every document      *)
(* involved is the version of the content just read or written: the        *)
(* version the document had when it was read, or the version of a stored   *)
(* file that holds what was written.  No request removes a cache entry.    *)
C24_CacheCoherent ==
    [][\A p \in Procs :
         /\ (pc[p] = "read_stat" /\ pc'[p] = "idle")
               => lastKnownTimestamps'[p][op[p].doc] = op[p].stored
         /\ (pc[p] = "write_stat" /\ pc'[p] = "idle")
               => /\ lastKnownTimestamps'[p][op[p].doc] = Mtime(op[p].doc)
                  /\ fs[FinalPath(op[p].doc)].text = Stringify(op[p].data)
         /\ (pc[p] = "batch_stat" /\ pc'[p] = "idle")
               => \A d \in SeqRange(op[p].entries) :
                     /\ lastKnownTimestamps'[p][d] = Mtime(d)
                     /\ fs[FinalPath(d)] = FileOf(Stringify(op[p].data), Mtime(d))
         /\ \A d \in Docs :
               lastKnownTimestamps[p][d] # NoEntry => lastKnownTimestamps'[p][d] # NoEntry]_vars

----------------------------------------------------------------------------
(* C25: a task whose generation is not the current one when its turn       *)
(* comes leaves the chain without sending a request and without changing   *)
(* any file, cache entry or application state; and every batch commit is   *)
(* sent by a task whose generation is the current one at that moment.      *)
C25_StaleTaskDoesNothing ==
    [][\A k \in 1..Len(saveQueue) :
         saveQueue[k].state = "pending" =>
           /\ saveQueue' = WithoutTask(saveQueue[k].gen)
                => /\ saveQueue[k].gen # saveGeneration
                   /\ UNCHANGED <<ipc, fs, lastKnownTimestamps, sections, selectedTerm,
                                  instructors, saveGeneration, saveError, showConflict>>
           /\ (Len(saveQueue') = Len(saveQueue) /\ saveQueue'[k].state = "running")
                => /\ saveQueue[k].gen = saveGeneration
                   /\ saveGeneration' = saveGeneration
                   /\ ipc' = Append(ipc, ipc'[Len(ipc')])
                   /\ ipc'[Len(ipc')].kind = "batch"
                   /\ ipc'[Len(ipc')].gen = saveGeneration]_vars

(* edits were made, nothing failed, and one of the tasks left the chain    *)
(* without a commit                                                         *)
C25_Witness ==
    /\ Quiescent /\ ~failed /\ ~saveError
    /\ burst.edits = 3 /\ burst.writes = 2

(* the generations of the tasks on the chain *)
Queued == {saveQueue[k].gen : k \in 1..Len(saveQueue)}

(* C26: when a batch commit fails, the error is shown in that step, the    *)
(* task leaves the chain for good without a new request being sent, and    *)
(* the task behind it, if any, is the next to run; no task that has left   *)
(* the chain ever comes back.                                              *)
C26_FailureDoesNotBlock ==
    [][/\ (/\ ipc # <<>> /\ Head(ipc).kind = "batch" /\ ipc' = Tail(ipc)
           /\ burst'.writes = burst.writes)
             => /\ saveError'
                /\ Head(ipc).gen \notin Queued'
                /\ saveQueue' # <<>> => /\ saveQueue'[1].state = "pending"
                                        /\ MicrotaskReady'
       /\ \A g \in 1..saveGeneration : g \notin Queued => g \notin Queued'
       /\ \A k \in 1..Len(ipc') :
             (k > Len(ipc) /\ ipc'[k].kind = "batch")
                => /\ ipc'[k].gen \in Queued
                   /\ \A j \in 1..Len(ipc) : ipc[j].gen # ipc'[k].gen]_vars

(* a save has failed and a later task has sent its commit *)
C26_Witness ==
    /\ saveError
    /\ saveQueue # <<>> /\ saveQueue[1].state = "running"
    /\ InFlight({"batch"}) # {}

----------------------------------------------------------------------------
(* The renderer with its scheduling: a callback of the promise chain whose *)
(* predecessor has settled is run by the event loop, and the main process  *)
(* answers every request it has received.  User events and the passing of  *)
(* time are not forced.                                                    *)
AppLiveSpec ==
    /\ AppSpec
    /\ WF_vars(\E k \in 1..MaxGen : saveTask(k))
    /\ WF_vars(\E outcome \in {"ok", "stage", "rename"} : batchWriteDone(outcome))
    /\ WF_vars(loadSectionsDone)
    /\ WF_vars(\E ok \in BOOLEAN : saveInstructorsDone(ok))

(* the chain is idle and the store holds the sections shown for the term *)
IdleAndSaved ==
    /\ saveQueue = <<>>
    /\ Parse(AppFile(selectedTerm).text) = sections

(* C27: unless a store operation fails, the chain is eventually idle for   *)
(* good, so that every task put on it has left it, skipped or with its     *)
(* commit completed; and whenever the chain is idle the selected term's    *)
(* file holds the sections in memory.                                      *)
C27_EventuallySaved ==
    /\ <>[](failed \/ IdleAndSaved)
    /\ [](saveQueue = <<>> => (failed \/ IdleAndSaved))

(* the chain is idle after a change of term, the edits made since and      *)
(* their commits, and the new term's file holds what is shown              *)
C27_Witness ==
    /\ Quiescent /\ ~failed /\ ~saveError
    /\ selectedTerm = "T2" /\ lastEdit["T2"] = sections
    /\ IdleAndSaved
    /\ burst.writes >= 1

----------------------------------------------------------------------------
(* process p is about to complete the same batch it issued before and saw  *)
(* fail in phase 1 or phase 2, and nothing else has used the store         *)
RetriedBatch(p) ==
    /\ pc[p] = "batch_stat"
    /\ nops = 2
    /\ \A q \in Procs \ {p} : pc[q] = "idle"
    /\ res.proc = p /\ res.kind = "batch" /\ res.status = "fail"
    /\ res.phase \in {"stage", "rename"}
    /\ res.entries = op[p].entries /\ res.data = op[p].data

(* what a batch of the given entries and data leaves behind when it        *)
(* succeeds at once on the initial folder: its documents hold the data,    *)
(* no staging file exists, every other document is as it was               *)
AsIfFirstTime(entries, data, q) ==
    IF \E d \in SeqRange(entries) : q = FinalPath(d)
    THEN fs[q].present /\ fs[q].text = Stringify(data)
    ELSE IF \E d \in Docs : q = FinalPath(d)
    THEN fs[q] \in {Absent, FileOf(Stringify("X2"), InitTime)}
    ELSE ~fs[q].present

(* C28: when a batch that failed while staging or while renaming is issued *)
(* again unchanged and succeeds, every file of the folder has the content  *)
(* it would have had if the first attempt had succeeded.                   *)
C28_RetryIdempotent ==
    \A p \in Procs :
        RetriedBatch(p) => \A q \in Paths : AsIfFirstTime(op[p].entries, op[p].data, q)

(* the second rename of a two-document batch failed, the batch was issued  *)
(* again and all its renames are done                                      *)
C28_Witness ==
    \E p \in Procs :
        /\ RetriedBatch(p)
        /\ res.phase = "rename" /\ res.failedAt = 2
        /\ \A d \in Docs : fs[FinalPath(d)].text = Stringify(DataOf(p))

----------------------------------------------------------------------------
(* the tasks on the chain carry strictly increasing generations, none      *)
(* beyond the counter                                                      *)
GenerationsOrdered ==
    /\ \A j, k \in 1..Len(saveQueue) : j < k => saveQueue[j].gen < saveQueue[k].gen
    /\ \A k \in 1..Len(saveQueue) : saveQueue[k].gen \in 1..saveGeneration

(* C29: the generation counter never decreases; a step puts at most one    *)
(* task on the chain, and the counter goes up by one exactly in such a     *)
(* step, the new task carrying the new value, which is greater than the    *)
(* generation of every task enqueued before; so the tasks on the chain are *)
(* ordered by generation and at most one of them is current.               *)
C29_GenerationMonotone ==
    /\ [](/\ GenerationsOrdered
          /\ Cardinality({k \in 1..Len(saveQueue) : ~IsStale(saveQueue[k].gen)}) <= 1)
    /\ [][/\ saveGeneration' >= saveGeneration
          /\ LET new == {k \in 1..Len(saveQueue') : saveQueue'[k].gen \notin Queued}
             IN /\ Cardinality(new) <= 1
                /\ saveGeneration' = saveGeneration + Cardinality(new)
                /\ \A k \in new : /\ k = Len(saveQueue')
                                  /\ saveQueue'[k].gen = saveGeneration'
                                  /\ saveQueue'[k].gen > saveGeneration]_vars

(* three tasks are on the chain behind one another and the counter has     *)
(* been incremented for each; only the last is current                     *)
C29_Witness ==
    /\ Len(saveQueue) = 3
    /\ saveGeneration = MaxGen
    /\ ~IsStale(saveQueue[3].gen)
    /\ IsStale(saveQueue[1].gen) /\ IsStale(saveQueue[2].gen)

----------------------------------------------------------------------------
(* C30: when a save's batch commit has succeeded, the stored ledger's      *)
(* entry under the saved term lists exactly the stored sections of that    *)
(* term that name the instructor.                                          *)
C30_LedgerConsistent ==
    [][(/\ ipc # <<>> /\ Head(ipc).kind = "batch" /\ ipc' = Tail(ipc)
        /\ burst'.writes = burst.writes + 1)
          => LET t == Head(ipc).entries[1].doc
             IN Parse(fs'[FinalPath(Ledger)].text)[t]
                   = EntriesFor(Tracked, Parse(fs'[FinalPath(t)].text))]_vars

----------------------------------------------------------------------------
(* C31: a term whose sections were loaded and not edited since is not      *)
(* written: no commit is issued for its document and its stored file       *)
(* stays as it is.                                                         *)
C31_LoadIsReadOnly ==
    [][\A t \in Terms :
          (lastEdit[t] = NoEdit /\ lastEdit'[t] = NoEdit)
             => /\ fs'[FinalPath(t)] = fs[FinalPath(t)]
                /\ \A k \in 1..Len(ipc') :
                      (k > Len(ipc) /\ ipc'[k].kind = "batch") => ipc'[k].doc # t]_vars

(* C32: a commit issued for a term carries sections that were edited for   *)
(* that term or are what the store holds for it, and the ledger it carries *)
(* lists under that term's key the instructor's sections among them.       *)
C32_SnapshotMatchesTarget ==
    [][\A k \in 1..Len(ipc') :
          (k > Len(ipc) /\ ipc'[k].kind = "batch")
             => LET t == ipc'[k].entries[1].doc
                    x == ipc'[k].entries[1].data
                IN /\ t = ipc'[k].doc
                   /\ x \in {lastEdit[t], Parse(AppFile(t).text)}
                   /\ Len(ipc'[k].entries) = 2
                        => ipc'[k].entries[2].data[t] = EntriesFor(Tracked, x)]_vars

(* C33: a task is discarded without a commit only if a task enqueued after *)
(* it saves the same term.                                                 *)
C33_StaleOnlyBySameTerm ==
    [][\A k \in 1..Len(saveQueue) :
          (/\ saveQueue[k].state = "pending"
           /\ saveQueue' = WithoutTask(saveQueue[k].gen) /\ ipc' = ipc)
             => \E j \in (k + 1)..Len(saveQueue) : saveQueue[j].term = saveQueue[k].term]_vars

----------------------------------------------------------------------------
(* The renderer with a catalog the user edits.  An instructor of the       *)
(* catalog has, besides the history, an abbreviation that the instructor   *)
(* dialog changes; the catalog value is the history with the abbreviation  *)
(* under a key of its own.                                                 *)

Abbr == "abbreviation"

Abbrs == {<<"a0">>, <<"a1">>}

WithAbbr(h, a) == [k \in Terms \cup {Abbr} |-> IF k = Abbr THEN a ELSE h[k]]

(* the state after init() as in AppInit, the catalog carrying abbreviations *)
CatalogInit ==
    /\ clock = InitTime
    /\ NoStore
    /\ \E s1 \in {<<>>, <<"A">>}, h1 \in BOOLEAN, initialSave \in BOOLEAN :
         LET h == WithAbbr([t \in Terms |-> IF t = "T2" THEN <<"A">>
                                            ELSE IF ~h1 THEN NoHist
                                            ELSE EntriesFor(Tracked, s1)], <<"a0">>)
         IN /\ fs = [q \in {FinalPath(d) : d \in AppDocs} |->
                       IF q = FinalPath("T1") THEN FileOf(AppText(s1), InitTime)
                       ELSE IF q = FinalPath("T2") THEN FileOf(AppText(<<"A">>), InitTime)
                       ELSE FileOf(AppText(h), InitTime)]
            /\ sections = s1
            /\ instructors = h
            /\ saveGeneration = IF initialSave THEN 1 ELSE 0
            /\ saveQueue = IF initialSave
                           THEN <<[gen |-> 1, sections |-> s1, term |-> "T1",
                                   instr |-> h, state |-> "pending"]>>
                           ELSE <<>>
            /\ burst = [edits |-> IF initialSave THEN 1 ELSE 0, writes |-> 0,
                        user |-> FALSE]
    /\ lastKnownTimestamps =
          [p \in {App} |-> [d \in AppDocs |-> IF d = "T2" THEN NoEntry ELSE InitTime]]
    /\ selectedTerm = "T1"
    /\ ipc = <<>>
    /\ saveError = FALSE /\ showConflict = FALSE
    /\ lastEdit = [t \in Terms |-> NoEdit]
    /\ failed = FALSE

(* handleInstructorSave(list, []) with an edited list: setInstructors(list); *)
(* saveInstructors(list) is called without await and outside the chain      *)
handleInstructorEdit(a) ==
    /\ UserEvent(0)
    /\ a # instructors[Abbr]
    /\ \A k \in 1..Len(ipc) : ipc[k].kind # "write"
    /\ instructors' = [instructors EXCEPT ![Abbr] = a]
    /\ ipc' = Append(ipc, [NoReq EXCEPT !.kind = "write", !.doc = Ledger,
                                        !.entries = <<[doc |-> Ledger, data |-> instructors']>>,
                                        !.expected = CacheGet(App, Ledger)])
    /\ UNCHANGED <<sections, selectedTerm, saveGeneration, saveQueue,
                   saveError, showConflict, lastEdit, failed, burst>>
    /\ UNCHANGED storeVars

CatalogNext ==
    \/ Tick
    \/ \E new \in SectionLists : handleSubmit(new)
    \/ \E t \in Terms : selectTerm(t)
    \/ \E a \in Abbrs : handleInstructorEdit(a)
    \/ \E k \in 1..MaxGen : saveTask(k)
    \/ \E outcome \in {"ok", "stage", "rename"} : batchWriteDone(outcome)
    \/ loadSectionsDone
    \/ \E ok \in BOOLEAN : saveInstructorsDone(ok)

CatalogSpec == CatalogInit /\ [][CatalogNext]_vars

(* the abbreviation the stored catalog holds *)
StoredAbbr == Parse(AppFile(Ledger).text)[Abbr]

(* C34: when every catalog save has been answered, none has failed and    *)
(* the store holds the catalog as the user last saved it, the completion   *)
(* of a section save leaves the abbreviation as it is, both in the stored  *)
(* catalog and in memory.                                                  *)
C34_NoCatalogRollback ==
    [][(/\ ipc # <<>> /\ Head(ipc).kind = "batch" /\ ipc' = Tail(ipc)
        /\ InFlight({"write"}) = {} /\ ~failed
        /\ StoredAbbr = instructors[Abbr])
          => /\ instructors'[Abbr] = instructors[Abbr]
             /\ StoredAbbr' = instructors[Abbr]]_vars

----------------------------------------------------------------------------
(* C35: a conditional write is answered with a conflict only if some other *)
(* process has access to the folder.                                       *)
C35_NoSelfConflict ==
    [][\A p \in Procs :
          (/\ pc[p] = "idle" /\ nops' = nops + 1
           /\ res'.proc = p /\ res'.kind = "write" /\ res'.status = "conflict"
           /\ pc'[p] = "idle")
             => \E q \in Procs \ {p} : configured[q]]_vars

====
